---- MODULE Spec2Model ----
(***************************************************************************)
(* A model of csv_parser.py: CustomCsvWriter (writerow, writerows and the  *)
(* quoting helpers) and CustomCsvReader (__init__, __next__, read).        *)
(* Text is a sequence of one-character strings.  __next__ is modelled at   *)
(* the grain of its while loop: the entry check, the buffer refill and the *)
(* classification of one character are one step each, and pc is the       *)
(* reader's position in that code.                                         *)
(***************************************************************************)
EXTENDS Integers, Sequences, FiniteSets, TLC

\* ------------------------------------------------------------ characters
delimiter == ","
quotechar == "\""
LF == "\n"
CR == "\r"
Alphabet == {"a", delimiter, quotechar, LF, CR}

\* ---------------------------------------------------------------- bounds
\* longest text handed to a reader that does not read a writer's output
MaxLen == 4
\* most characters one fileobj.read returns (read(4096) in the source,
\* scaled down; a read may return fewer, never none before the end)
ChunkSize == 2
\* budget of the writer: characters plus separators of all rows written
MaxWritten == 3
\* how many times a caller goes on calling after StopIteration
MaxStops == 2

Min(a, b) == IF a < b THEN a ELSE b
Texts(n) == UNION {[1..k -> Alphabet] : k \in 0..n}

\* what a row costs of the writer's budget: its unquoted line length
RECURSIVE SumLen(_)
SumLen(fields) ==
    IF fields = <<>> THEN 0 ELSE Len(Head(fields)) + 1 + SumLen(Tail(fields))
Cost(r) == IF r = <<>> THEN 1 ELSE SumLen(r)
RECURSIVE TotalCost(_)
TotalCost(rs) == IF rs = <<>> THEN 0 ELSE Cost(Head(rs)) + TotalCost(Tail(rs))

RECURSIVE NonEmptyRows(_)
NonEmptyRows(b) ==
    IF b < 1 THEN {}
    ELSE UNION {{<<f>>} \cup {<<f>> \o r : r \in NonEmptyRows(b - Len(f) - 1)}
                : f \in Texts(b - 1)}
RowsWithin(b) == (IF b >= 1 THEN {<<>>} ELSE {}) \cup NonEmptyRows(b)
RECURSIVE RowListsWithin(_)
RowListsWithin(b) ==
    {<<>>} \cup UNION {{<<r>> \o rs : rs \in RowListsWithin(b - Cost(r))}
                       : r \in RowsWithin(b)}

VARIABLES
    sink,           \* CustomCsvWriter.fileobj: the text written so far
    written,        \* history: the rows passed to the writer, in order
    escaped,        \* history: writerow's escaped_fields, one list per row
    reread,         \* history: the rows written are those a reader returned
    text,           \* CustomCsvReader.fileobj: the whole text of the stream
    pos,            \* how many characters of text the reader has pulled
    buffer,         \* CustomCsvReader.buffer
    eof,            \* CustomCsvReader.eof
    pc,             \* "none" (no reader yet), "idle" (between calls),
                    \* "loop" (line 48), "char" (line 59)
    row,            \* __next__'s local row
    current_field,  \* __next__'s local current_field
    in_quotes,      \* __next__'s local in_quotes
    rows,           \* history: the rows __next__ has returned, in order
    outcome,        \* how the last __next__ call ended:
                    \* "none", "row", "stop" (StopIteration) or "error"
    stops,          \* history: how many calls raised StopIteration
    pulls,          \* history: how many times the last call to enter the
                    \* loop has called fileobj.read
    exhausted,      \* history: some fileobj.read returned nothing
    line,           \* history: the characters the current call consumed
    opened,         \* history: how many of them were consumed when
                    \* in_quotes last became True, 0 if it never did
    consumed,       \* history: the characters all calls consumed, in order
    reading,        \* inside read(), that is list(self)
    read_result     \* the list read() is building

vars == <<sink, written, escaped, reread, text, pos, buffer, eof, pc, row,
          current_field, in_quotes, rows, outcome, stops, pulls, exhausted,
          line, opened, consumed, reading, read_result>>
writerVars == <<sink, written, escaped, reread>>
readerVars == <<text, pos, buffer, eof, pc, row, current_field, in_quotes,
                rows, outcome, stops, pulls, exhausted, line, opened,
                consumed, reading, read_result>>

\* ================================================================ writer

\* c in s
Contains(s, c) == \E i \in 1..Len(s) : s[i] = c

\* _needs_quoting without the test for '\r'
_needs_quoting_NoCR(field) ==
    \/ Contains(field, delimiter)
    \/ Contains(field, quotechar)
    \/ Contains(field, LF)

_needs_quoting(field) ==
    \/ Contains(field, delimiter)
    \/ Contains(field, quotechar)
    \/ Contains(field, LF)
    \/ Contains(field, CR)

\* s.replace(old, new) for a one-character old
RECURSIVE replace(_, _, _)
replace(s, old, new) ==
    IF s = <<>> THEN <<>>
    ELSE (IF Head(s) = old THEN new ELSE <<Head(s)>>)
         \o replace(Tail(s), old, new)

_escape_field(field) ==
    IF _needs_quoting(field)
    THEN LET escaped_ == replace(field, quotechar, <<quotechar, quotechar>>)
         IN  <<quotechar>> \o escaped_ \o <<quotechar>>
    ELSE field

\* sep.join(parts)
RECURSIVE join(_, _)
join(sep, parts) ==
    IF parts = <<>> THEN <<>>
    ELSE IF Len(parts) = 1 THEN parts[1]
    ELSE parts[1] \o <<sep>> \o join(sep, Tail(parts))

\* writerow's locals; the fields are text, which str() returns unchanged
escaped_fields(r) == [i \in 1..Len(r) |-> _escape_field(r[i])]

\* writerow ending the line with CR LF
RowLine_CRLF(r) == join(delimiter, escaped_fields(r)) \o <<CR, LF>>

RowLine(r) == join(delimiter, escaped_fields(r)) \o <<LF>>

\* the effect of one writerow call on the three writer variables
WriteOne(w, r) ==
    [sink |-> w.sink \o RowLine(r),
     written |-> Append(w.written, r),
     escaped |-> Append(w.escaped, escaped_fields(r))]

\* for row in rows: self.writerow(row)
RECURSIVE WriteAll(_, _)
WriteAll(w, rs) ==
    IF rs = <<>> THEN w ELSE WriteAll(WriteOne(w, Head(rs)), Tail(rs))

Writer == [sink |-> sink, written |-> written, escaped |-> escaped]

writerow ==
    /\ pc = "none"
    /\ \E r \in RowsWithin(MaxWritten - TotalCost(written)) :
         LET w == WriteOne(Writer, r)
         IN  /\ sink' = w.sink
             /\ written' = w.written
             /\ escaped' = w.escaped
    /\ UNCHANGED reread
    /\ UNCHANGED readerVars

writerows ==
    /\ pc = "none"
    /\ \E rs \in RowListsWithin(MaxWritten - TotalCost(written)) :
         LET w == WriteAll(Writer, rs)
         IN  /\ sink' = w.sink
             /\ written' = w.written
             /\ escaped' = w.escaped
    /\ UNCHANGED reread
    /\ UNCHANGED readerVars

\* ================================================================ reader

\* CustomCsvReader(fileobj): over the writer's output once rows were
\* written, over any text otherwise
reader_init ==
    /\ pc = "none"
    /\ \E fileobj \in (IF written = <<>> THEN Texts(MaxLen) ELSE {sink}) :
         text' = fileobj
    /\ pos' = 0
    /\ buffer' = <<>>
    /\ eof' = FALSE
    /\ pc' = "idle"
    /\ UNCHANGED <<row, current_field, in_quotes, rows, outcome, stops,
                   pulls, exhausted, line, opened, consumed, reading,
                   read_result>>
    /\ UNCHANGED writerVars

\* __next__ returns r
ReturnRow(r) ==
    /\ pc' = "idle"
    /\ outcome' = "row"
    /\ rows' = Append(rows, r)
    /\ read_result' = IF reading THEN Append(read_result, r) ELSE read_result
    /\ UNCHANGED <<stops, reading>>

\* __next__ raises StopIteration, which ends list(self)
RaiseStop ==
    /\ pc' = "idle"
    /\ outcome' = "stop"
    /\ stops' = stops + 1
    /\ reading' = FALSE
    /\ UNCHANGED <<rows, read_result>>

\* the entry check with the buffer test inverted
EntryStop_Inverted == eof /\ buffer # <<>>

\* line 39: the entry check
EntryStop == eof /\ buffer = <<>>

\* lines 39-44: the entry check and the reset of the locals
next_row ==
    /\ pc = "idle"
    /\ reading \/ stops < MaxStops
    /\ IF EntryStop
       THEN /\ RaiseStop
            /\ UNCHANGED <<row, current_field, in_quotes, pulls>>
            /\ line' = <<>>
            /\ opened' = 0
       ELSE /\ pc' = "loop"
            /\ row' = <<>>
            /\ current_field' = <<>>
            /\ in_quotes' = FALSE
            /\ line' = <<>>
            /\ opened' = 0
            /\ pulls' = 0
            /\ UNCHANGED <<rows, outcome, stops, reading, read_result>>
    /\ UNCHANGED <<text, pos, buffer, eof, exhausted, consumed>>
    /\ UNCHANGED writerVars

\* fileobj.read() without a size: all that is left of the stream
Reads_Drain(n) == {SubSeq(text, pos + 1, Len(text))}

\* fileobj.read(n): the next characters, at most n, none only at the end
Reads(n) ==
    IF pos = Len(text) THEN {<<>>}
    ELSE {SubSeq(text, pos + 1, pos + k) : k \in 1..Min(n, Len(text) - pos)}

\* the end of input taking a field to be in progress only when it holds
\* characters
FieldInProgress_FieldOnly == current_field # <<>>

\* line 52: a field is in progress at the end of input
FieldInProgress == current_field # <<>> \/ in_quotes

\* the end of input returning the row without testing it
HasRow_Always(r) == TRUE

\* line 54: if row
HasRow(r) == r # <<>>

\* the refill without its test of the buffer
NeedsPull_Always == TRUE

\* line 48: if not self.buffer
NeedsPull == buffer = <<>>

\* lines 48-57: refill an empty buffer, or end the call at end of input
Pull ==
    /\ pc = "loop"
    /\ IF NeedsPull
       THEN \E chunk \in Reads(ChunkSize) :
              /\ pulls' = pulls + 1
              /\ pos' = pos + Len(chunk)
              /\ IF chunk = <<>>
                 THEN /\ eof' = TRUE
                      /\ exhausted' = TRUE
                      /\ row' = IF FieldInProgress
                                THEN Append(row, current_field) ELSE row
                      /\ IF HasRow(row') THEN ReturnRow(row') ELSE RaiseStop
                      /\ UNCHANGED buffer
                 ELSE /\ buffer' = chunk
                      /\ pc' = "char"
                      /\ UNCHANGED <<eof, exhausted, row, rows, outcome,
                                     stops, reading, read_result>>
       ELSE /\ pc' = "char"
            /\ UNCHANGED <<pulls, pos, buffer, eof, exhausted, row, rows,
                           outcome, stops, reading, read_result>>
    /\ UNCHANGED <<text, current_field, in_quotes, line, opened, consumed>>
    /\ UNCHANGED writerVars

IndexError == "IndexError"
\* s[0]
At0(s) == IF s = <<>> THEN IndexError ELSE s[1]
\* s[1:]
From1(s) == IF s = <<>> THEN <<>> ELSE Tail(s)

\* the loop goes on with these values (status "continue"), or the call
\* returns the row (status "return")
Continue(b, r, f, q) ==
    [status |-> "continue", buffer |-> b, row |-> r, current_field |-> f,
     in_quotes |-> q]
Return(b, r, f, q) ==
    [status |-> "return", buffer |-> b, row |-> r, current_field |-> f,
     in_quotes |-> q]
Raise(b, r, f, q) ==
    [status |-> "error", buffer |-> b, row |-> r, current_field |-> f,
     in_quotes |-> q]

\* the lookahead without its test that the buffer holds a character:
\* self.buffer[0] on an empty buffer raises IndexError
OnQuote_UnguardedLookahead(rest, r, f, q) ==
    IF q
    THEN IF At0(rest) = IndexError THEN Raise(rest, r, f, q)
         ELSE IF At0(rest) = quotechar
         THEN Continue(From1(rest), r, f \o <<quotechar>>, q)
         ELSE Continue(rest, r, f, FALSE)
    ELSE Continue(rest, r, f, TRUE)

\* the quote branch appending the opening quote to the field
OnQuote_KeepOpeningQuote(rest, r, f, q) ==
    IF q
    THEN IF rest # <<>> /\ At0(rest) = quotechar
         THEN Continue(From1(rest), r, f \o <<quotechar>>, q)
         ELSE Continue(rest, r, f, FALSE)
    ELSE Continue(rest, r, f \o <<quotechar>>, TRUE)

\* the quote branch leaving the region open when the buffer holds no
\* character to look at
OnQuote_StayOpenAtBufferEnd(rest, r, f, q) ==
    IF q
    THEN IF rest = <<>> THEN Continue(rest, r, f, q)
         ELSE IF At0(rest) = quotechar
         THEN Continue(From1(rest), r, f \o <<quotechar>>, q)
         ELSE Continue(rest, r, f, FALSE)
    ELSE Continue(rest, r, f, TRUE)

\* lines 63-72: the quote character; rest is the buffer after it
OnQuote(rest, r, f, q) ==
    IF q
    THEN IF rest # <<>> /\ At0(rest) = quotechar
         THEN Continue(From1(rest), r, f \o <<quotechar>>, q)
         ELSE Continue(rest, r, f, FALSE)
    ELSE Continue(rest, r, f, TRUE)

\* the delimiter branch without its test of in_quotes
IsDelimiter_InQuotes(char, q) == char = delimiter

\* line 74: the test of the delimiter branch
IsDelimiter(char, q) == char = delimiter /\ ~q

\* the delimiter branch without the reset of current_field
OnDelimiter_KeepField(rest, r, f, q) == Continue(rest, Append(r, f), f, q)

\* lines 75-76
OnDelimiter(rest, r, f, q) == Continue(rest, Append(r, f), <<>>, q)

\* line 78: the test of the newline branch
IsNewline(char, q) == char \in {LF, CR} /\ ~q

\* the newline branch returning the row without the field in progress
OnNewline_DropField(char, rest, r, f, q) ==
    Return(IF char = CR /\ rest # <<>> /\ At0(rest) = LF
           THEN From1(rest) ELSE rest,
           r, f, q)

\* lines 79-83
OnNewline(char, rest, r, f, q) ==
    Return(IF char = CR /\ rest # <<>> /\ At0(rest) = LF
           THEN From1(rest) ELSE rest,
           Append(r, f), f, q)

\* lines 59-85: take one character off the buffer and classify it
ProcessChar(buf, r, f, q) ==
    LET char == At0(buf)
        rest == From1(buf)
    IN  IF char = IndexError THEN Raise(buf, r, f, q)
        ELSE IF char = quotechar THEN OnQuote(rest, r, f, q)
        ELSE IF IsDelimiter(char, q) THEN OnDelimiter(rest, r, f, q)
        ELSE IF IsNewline(char, q) THEN OnNewline(char, rest, r, f, q)
        ELSE Continue(rest, r, f \o <<char>>, q)

Consume ==
    /\ pc = "char"
    /\ LET n == ProcessChar(buffer, row, current_field, in_quotes)
       IN  /\ buffer' = n.buffer
           /\ row' = n.row
           /\ current_field' = n.current_field
           /\ in_quotes' = n.in_quotes
           /\ line' = line \o SubSeq(buffer, 1, Len(buffer) - Len(n.buffer))
           /\ opened' = IF n.in_quotes /\ ~in_quotes
                        THEN Len(line) + Len(buffer) - Len(n.buffer)
                        ELSE opened
           /\ consumed' =
                consumed \o SubSeq(buffer, 1, Len(buffer) - Len(n.buffer))
           /\ IF n.status = "return" THEN ReturnRow(n.row)
              ELSE IF n.status = "error"
              THEN /\ pc' = "idle"
                   /\ outcome' = "error"
                   /\ reading' = FALSE
                   /\ UNCHANGED <<rows, stops, read_result>>
              ELSE /\ pc' = "loop"
                   /\ UNCHANGED <<rows, outcome, stops, reading, read_result>>
    /\ UNCHANGED <<text, pos, eof, pulls, exhausted>>
    /\ UNCHANGED writerVars

\* read(): list(self) calls __next__ until it raises StopIteration
read ==
    /\ pc = "idle"
    /\ ~reading
    /\ stops < MaxStops
    /\ reading' = TRUE
    /\ read_result' = <<>>
    /\ UNCHANGED <<text, pos, buffer, eof, pc, row, current_field, in_quotes,
                   rows, outcome, stops, pulls, exhausted, line, opened,
                   consumed>>
    /\ UNCHANGED writerVars

\* a caller that has read a text to its end writes the rows it got with
\* writerows to a new stream, within the writer's budget, and constructs a
\* new reader over that stream
write_back ==
    /\ pc = "idle"
    /\ exhausted
    /\ ~reading
    /\ ~reread
    /\ TotalCost(rows) <= MaxWritten
    /\ written = <<>>
    /\ LET w == WriteAll(Writer, rows)
       IN  /\ sink' = w.sink
           /\ written' = w.written
           /\ escaped' = w.escaped
           /\ text' = w.sink
    /\ reread' = TRUE
    /\ pos' = 0
    /\ buffer' = <<>>
    /\ eof' = FALSE
    /\ row' = <<>>
    /\ current_field' = <<>>
    /\ in_quotes' = FALSE
    /\ rows' = <<>>
    /\ outcome' = "none"
    /\ stops' = 0
    /\ pulls' = 0
    /\ exhausted' = FALSE
    /\ line' = <<>>
    /\ opened' = 0
    /\ consumed' = <<>>
    /\ read_result' = <<>>
    /\ UNCHANGED <<pc, reading>>

\* ========================================================= specification

Init ==
    /\ sink = <<>>
    /\ written = <<>>
    /\ escaped = <<>>
    /\ reread = FALSE
    /\ text = <<>>
    /\ pos = 0
    /\ buffer = <<>>
    /\ eof = FALSE
    /\ pc = "none"
    /\ row = <<>>
    /\ current_field = <<>>
    /\ in_quotes = FALSE
    /\ rows = <<>>
    /\ outcome = "none"
    /\ stops = 0
    /\ pulls = 0
    /\ exhausted = FALSE
    /\ line = <<>>
    /\ opened = 0
    /\ consumed = <<>>
    /\ reading = FALSE
    /\ read_result = <<>>

Next ==
    \/ writerow
    \/ writerows
    \/ reader_init
    \/ next_row
    \/ Pull
    \/ Consume
    \/ read
    \/ write_back

Spec == Init /\ [][Next]_vars

\* the loop of __next__ runs on once entered, and list(self) goes on
\* calling __next__ until StopIteration
FairSpec ==
    /\ Spec
    /\ WF_vars(Pull)
    /\ WF_vars(Consume)
    /\ WF_vars(reading /\ next_row)

\* ======================================================= claim helpers

\* __next__ over a stream whose whole text arrives in one chunk: the row of
\* the first call, <<>> when that call raises StopIteration
RECURSIVE RunBuffered(_, _, _, _)
RunBuffered(buf, r, f, q) ==
    IF buf = <<>>
    THEN IF f # <<>> \/ q THEN Append(r, f) ELSE r
    ELSE LET n == ProcessChar(buf, r, f, q)
         IN  IF n.status = "return" THEN n.row
             ELSE RunBuffered(n.buffer, n.row, n.current_field, n.in_quotes)
FirstRowOf(t) == RunBuffered(t, <<>>, <<>>, FALSE)

\* how many characters of text the calls so far have consumed
Consumed == pos - Len(buffer)
Special == {delimiter, quotechar, LF, CR}
IsPlain(field) == \A i \in 1..Len(field) : field[i] \notin Special
\* a reader stands on the text of exactly one written row
ReadsOneRow == pc # "none" /\ Len(written) = 1
\* that reader gave the row back and nothing else
GaveBack(r) ==
    /\ outcome # "error"
    /\ Len(rows) <= 1
    /\ Len(rows) = 1 => rows[1] = r
    /\ outcome = "stop" => Len(rows) = 1

\* ================================================================ claims

\* C1: round trip with special characters: for every row of one or more
\* fields, whatever characters the fields hold and however the written text
\* is cut into chunks, the reader over the text writerow wrote returns the
\* row written and then reports the end of input.
C1_RoundTripSpecial ==
    (ReadsOneRow /\ Len(written[1]) >= 1) => GaveBack(written[1])

\* C2 as stated: plain round trip for any finite sequence of fields without
\* delimiter, quote, CR or LF, the empty sequence included.
C2_PlainRoundTripAnyRow ==
    (ReadsOneRow /\ \A i \in 1..Len(written[1]) : IsPlain(written[1][i]))
        => GaveBack(written[1])

\* C2 as amended: plain round trip for every row of at least one field
\* whose fields hold no delimiter, quote, CR or LF: the reader returns the
\* same fields in the same order, then reports the end of input.
C2_PlainRoundTrip ==
    (/\ ReadsOneRow
     /\ Len(written[1]) >= 1
     /\ \A i \in 1..Len(written[1]) : IsPlain(written[1][i]))
        => GaveBack(written[1])

\* a two-field plain row was written, read back whole, and the end reported
C2_Witness ==
    /\ ReadsOneRow
    /\ Len(written[1]) = 2
    /\ written[1][1] # <<>>
    /\ \A i \in 1..2 : IsPlain(written[1][i])
    /\ rows = written
    /\ outcome = "stop"

\* C3: terminator normalization: a call that returns a row before the end
\* of input has just consumed one terminator, LF, CR or CR LF; when the CR
\* that ended the row is followed by LF in the input, that LF went with it
\* and is not left to end a row of its own, however the input is chunked.
C3_OneTerminatorPerRow ==
    (pc = "idle" /\ outcome = "row" /\ ~eof) =>
        /\ Consumed >= 1
        /\ text[Consumed] \in {LF, CR}
        /\ ~(/\ text[Consumed] = CR
             /\ Consumed < Len(text)
             /\ text[Consumed + 1] = LF)

\* C4: final unterminated line: when the call that finds the end of input
\* has consumed characters (a non-empty last line without terminator), it
\* returns a row, with the fields the same line followed by LF would give.
C4_FinalLineAsIfTerminated ==
    (pc = "idle" /\ eof /\ line # <<>>) =>
        /\ outcome = "row"
        /\ rows # <<>>
        /\ rows[Len(rows)] = FirstRowOf(line \o <<LF>>)

\* C5: the end of input is absorbing: once a pull has returned nothing the
\* eof flag is set and the buffer is empty, and every later step leaves
\* them so, pulls nothing, returns no row and, being a call, ends at once
\* in StopIteration (the steps are those of this reader: write_back
\* constructs another one).
C5_EndIsAbsorbing ==
    /\ [](exhausted => eof /\ buffer = <<>> /\ pc = "idle")
    /\ [][(exhausted /\ reread' = reread) =>
            /\ eof' /\ buffer' = <<>>
            /\ pulls' = pulls /\ pos' = pos
            /\ rows' = rows
            /\ pc' = "idle"
            /\ stops' # stops => (outcome' = "stop" /\ stops' = stops + 1)
            /\ outcome' \in {outcome, "stop"}]_vars

\* after a final row returned at the end of input, two more calls were made
C5_Witness ==
    /\ exhausted
    /\ rows # <<>>
    /\ stops >= 2
    /\ outcome = "stop"

\* C6: the reader never fails: no call ends in an error, whatever the input
\* and its chunking; a call that has ended returned a row or raised
\* StopIteration.
C6_NeverFails ==
    /\ outcome \in {"none", "row", "stop"}
    /\ outcome = "none" => (rows = <<>> /\ stops = 0)

\* a line with a quote opened in mid-field and never closed was returned
C6_Witness ==
    /\ written = <<>>
    /\ pc = "idle"
    /\ outcome = "row"
    /\ eof
    /\ in_quotes
    /\ Len(line) >= 3
    /\ line[1] # quotechar

IsSuffix(a, b) ==
    Len(a) <= Len(b) /\ a = SubSeq(b, Len(b) - Len(a) + 1, Len(b))

\* C7: finite iteration: every call ends, read() ends in StopIteration with
\* the rows of its calls in order, every call that returns a row has
\* consumed at least one character, and the rows never outnumber the
\* characters of the input.
C7_FiniteIteration ==
    /\ [](Len(rows) <= Len(text))
    /\ [](IsSuffix(read_result, rows))
    /\ [][Len(rows') > Len(rows) => line' # <<>>]_vars
    /\ (pc \in {"loop", "char"}) ~> (pc = "idle")
    /\ reading ~> (~reading /\ outcome = "stop")

\* a read() has ended after draining two rows or more
C7_Witness ==
    /\ ~reading
    /\ outcome = "stop"
    /\ Len(read_result) >= 2
    /\ read_result = rows
    /\ Len(rows) < Len(text)

\* C8: inside a quoted region a delimiter, CR or LF is appended to the
\* current field as it is; it closes no field and returns no row.
C8_QuotedStructuralChars ==
    [][(/\ pc = "char"
        /\ in_quotes
        /\ buffer # <<>>
        /\ buffer[1] \in {delimiter, CR, LF}) =>
            /\ current_field' = Append(current_field, buffer[1])
            /\ buffer' = Tail(buffer)
            /\ row' = row
            /\ rows' = rows
            /\ in_quotes'
            /\ pc' = "loop"]_vars

\* one row of one field was returned whose value holds a delimiter, a CR
\* and an LF
C8_Witness ==
    /\ outcome = "row"
    /\ Len(rows) = 1
    /\ Len(rows[1]) = 1
    /\ Contains(rows[1][1], delimiter)
    /\ Contains(rows[1][1], LF)
    /\ Contains(rows[1][1], CR)

\* how many quote characters the first i characters of f hold
QuotesIn(f, i) == Cardinality({j \in 1..i : f[j] = quotechar})
\* e is f between two quote characters with every quote character doubled
IsQuotedForm(e, f) ==
    /\ Len(e) = Len(f) + QuotesIn(f, Len(f)) + 2
    /\ e[1] = quotechar
    /\ e[Len(e)] = quotechar
    /\ \A i \in 1..Len(f) :
         /\ e[1 + i + QuotesIn(f, i - 1)] = f[i]
         /\ f[i] = quotechar => e[2 + i + QuotesIn(f, i - 1)] = quotechar

\* C9: writer field serialization: a field is emitted between two quote
\* characters, its own quote characters doubled, if and only if it holds
\* the delimiter, the quote character, CR or LF; any other field, the empty
\* one included, is emitted as it is.
C9_FieldSerialization ==
    /\ Len(escaped) = Len(written)
    /\ \A k \in 1..Len(written) :
         /\ Len(escaped[k]) = Len(written[k])
         /\ \A i \in 1..Len(written[k]) :
              IF IsPlain(written[k][i])
              THEN escaped[k][i] = written[k][i]
              ELSE IsQuotedForm(escaped[k][i], written[k][i])

\* a row was written with an empty field and a field holding a quote
C9_Witness ==
    /\ Len(written) = 1
    /\ Len(written[1]) = 2
    /\ written[1][1] = <<>>
    /\ Contains(written[1][2], quotechar)
    /\ Len(escaped[1][2]) = 4

\* the length of the line of a row whose serialized fields are es
LineLen(es) == IF es = <<>> THEN 1 ELSE SumLen(es)
\* where the i-th serialized field starts in that line
FieldStart(es, i) == SumLen(SubSeq(es, 1, i - 1))
\* L is the fields es joined by the delimiter and ended by one LF
IsLineOf(L, es) ==
    /\ Len(L) = LineLen(es)
    /\ L[Len(L)] = LF
    /\ \A i \in 1..Len(es) :
         /\ SubSeq(L, FieldStart(es, i) + 1, FieldStart(es, i) + Len(es[i]))
              = es[i]
         /\ i < Len(es) => L[FieldStart(es, i) + Len(es[i]) + 1] = delimiter
\* where the line of the k-th written row starts in the sink
RECURSIVE LineStart(_)
LineStart(k) == IF k = 1 THEN 0 ELSE LineStart(k - 1) + LineLen(escaped[k - 1])
IsPrefix(a, b) == Len(a) <= Len(b) /\ a = SubSeq(b, 1, Len(a))

\* C10: writer row serialization: the sink holds, for every row written by
\* writerow or writerows and in that order, the serialized fields joined by
\* the delimiter and ended by one LF, and nothing else; a write appends and
\* leaves what the sink held unchanged.
C10_RowSerialization ==
    /\ [](/\ Len(escaped) = Len(written)
          /\ Len(sink) = LineStart(Len(written) + 1)
          /\ \A k \in 1..Len(written) :
               IsLineOf(SubSeq(sink, LineStart(k) + 1, LineStart(k + 1)),
                        escaped[k]))
    /\ [][IsPrefix(sink, sink')]_vars

\* two rows were written one after the other, the first with a quoted
\* field, and the sink holds both lines
C10_Witness ==
    /\ Len(written) = 2
    /\ written[1] = <<<<delimiter>>>>
    /\ written[2] = <<<<>>>>
    /\ sink = <<quotechar, delimiter, quotechar, LF, LF>>

\* C11: read-write-read idempotence: the rows a reader produced from a text,
\* written with writerows and read again by a new reader to the end of the
\* written text, come back the same, in the same order.
C11_ReadWriteRead ==
    (reread /\ pc = "idle" /\ exhausted) => (outcome # "error" /\ rows = written)

\* position i of s lies outside every quoted region: an even number of
\* quote characters stands before it
Unquoted(s, i) == QuotesIn(s, i - 1) % 2 = 0
UnquotedDelimiters(s) ==
    Cardinality({i \in 1..Len(s) : s[i] = delimiter /\ Unquoted(s, i)})
\* the characters of s that end a row there: CR or LF, unquoted
UnquotedNewlines(s) ==
    {i \in 1..Len(s) : s[i] \in {LF, CR} /\ Unquoted(s, i)}
\* the same with CR LF counted once, at its CR
Terminators(s) ==
    {i \in UnquotedNewlines(s) : ~(s[i] = LF /\ i > 1 /\ s[i - 1] = CR)}
\* characters follow the last row terminator of s, or s has none and
\* is not empty
HasFinalLine(s) ==
    /\ s # <<>>
    /\ Len(s) \notin UnquotedNewlines(s)

\* C12: empty field preservation: every returned row has one more field
\* than its line has delimiters outside quoted regions, whether the line
\* was ended by a terminator or by the end of input.
C12_FieldsPerDelimiter ==
    (pc = "idle" /\ outcome = "row") =>
        Len(rows[Len(rows)]) = UnquotedDelimiters(line) + 1

\* how many quote characters f holds
Quotes(f) == QuotesIn(f, Len(f))
\* the next step processes a quote character in quoted mode whose next
\* buffered character is a quote character too
AtEscapedQuote ==
    /\ pc = "char"
    /\ in_quotes
    /\ Len(buffer) >= 2
    /\ buffer[1] = quotechar
    /\ buffer[2] = quotechar

\* C13: escaped quotes: in quoted mode a quote character followed in the
\* buffer by a quote character appends one quote character to the field,
\* consumes both and stays in quoted mode; no other step adds a quote
\* character to the field, and a field enters the row only as the
\* current field.
C13_EscapedQuote ==
    /\ [][AtEscapedQuote =>
            /\ current_field' = Append(current_field, quotechar)
            /\ buffer' = Tail(Tail(buffer))
            /\ line' = line \o <<quotechar, quotechar>>
            /\ in_quotes'
            /\ row' = row
            /\ pc' = "loop"]_vars
    /\ [][Quotes(current_field') > Quotes(current_field) =>
            AtEscapedQuote]_vars
    /\ [][row' # row =>
            row' = <<>> \/ row' = Append(row, current_field)]_vars
\* an escaped quote was consumed after an "a": the field holds the a and
\* one quote character and the reader is still in quoted mode
C13_Witness ==
    /\ pc = "loop"
    /\ in_quotes
    /\ line = <<quotechar, "a", quotechar, quotechar>>
    /\ current_field = <<"a", quotechar>>

\* C14: buffered-only lookahead: a quote character consumed in quoted mode
\* as the last character of the buffer ends the quoted region, and the step
\* pulls nothing and leaves the field alone, whatever the source would
\* deliver next; no step that processes a character pulls.
C14_BufferedLookahead ==
    /\ [][(pc = "char" /\ in_quotes /\ buffer = <<quotechar>>) =>
            /\ ~in_quotes'
            /\ buffer' = <<>>
            /\ current_field' = current_field
            /\ pc' = "loop"]_vars
    /\ [][pc = "char" => (pulls' = pulls /\ pos' = pos)]_vars
\* the region was closed at the end of the buffer although the next
\* character of the source is a quote character
C14_Witness ==
    /\ pc = "loop"
    /\ ~in_quotes
    /\ line = <<quotechar, quotechar>>
    /\ current_field = <<>>
    /\ buffer = <<>>
    /\ pos < Len(text)
    /\ text[pos + 1] = quotechar

\* s with every doubled quote character replaced by one
RECURSIVE Collapse(_)
Collapse(s) ==
    IF s = <<>> THEN <<>>
    ELSE IF Head(s) = quotechar /\ Len(s) >= 2 /\ s[2] = quotechar
    THEN <<quotechar>> \o Collapse(Tail(Tail(s)))
    ELSE <<Head(s)>> \o Collapse(Tail(s))

\* C15: unterminated quote: while a call is inside a quoted region it has
\* returned no row since the opening quote and its field ends with all it
\* consumed after that quote, delimiters and terminators as they are and
\* doubled quotes as one; when the end of input finds the region open the
\* call returns the row with that field last, even when the field is empty,
\* and the next call reports the end of input.
C15_UnterminatedQuote ==
    /\ [](in_quotes /\ pc \in {"loop", "char"} =>
            /\ opened > 0
            /\ line[opened] = quotechar
            /\ IsSuffix(Collapse(SubSeq(line, opened + 1, Len(line))),
                        current_field))
    /\ [][in_quotes /\ pc = "loop" /\ eof' /\ ~eof =>
            /\ outcome' = "row"
            /\ rows' = Append(rows, Append(row, current_field))
            /\ pc' = "idle"]_vars
    /\ [][(in_quotes /\ pc = "idle" /\ eof /\ outcome = "row"
           /\ (pc' = "loop" \/ stops' # stops) /\ reread' = reread) =>
            (outcome' = "stop" /\ pc' = "idle" /\ rows' = rows)]_vars
\* the end of input found open a quoted region that was opened after a
\* delimiter and holds nothing: the row ends with its empty field
C15_Witness ==
    /\ pc = "idle"
    /\ eof
    /\ in_quotes
    /\ outcome = "row"
    /\ line = <<delimiter, quotechar>>
    /\ rows = << << <<>>, <<>> >> >>

\* C16: no row is discarded: once the input is read to its end, the rows
\* returned are as many as the row terminators outside quoted regions
\* (CR LF being one), plus one when an unterminated last line follows.
C16_RowsPerTerminator ==
    (pc = "idle" /\ exhausted) =>
        Len(rows) = Cardinality(Terminators(text))
                    + (IF HasFinalLine(text) THEN 1 ELSE 0)

\* C17: the end of input is reported only when nothing is pending: a call
\* that raises StopIteration leaves the buffer empty and the source read
\* to its end, its field and row are empty and it is not in a quoted
\* region, and it has consumed no character that it did not return.
C17_StopOnlyWhenNothingPending ==
    [][stops' = stops + 1 =>
        /\ buffer' = <<>>
        /\ eof'
        /\ pos' = Len(text)
        /\ (pc = "loop") =>
            /\ current_field = <<>>
            /\ row = <<>>
            /\ ~in_quotes
            /\ line = <<>>]_vars

\* C18: every row __next__ returns has at least one field.
C18_NoEmptyRow ==
    /\ \A i \in 1..Len(rows) : Len(rows[i]) >= 1
    /\ \A i \in 1..Len(read_result) : Len(read_result[i]) >= 1
\* an empty line was returned as the row of one empty field, and the end
\* of input after it returned no row
C18_Witness ==
    /\ text = <<LF>>
    /\ rows = << << <<>> >> >>
    /\ outcome = "stop"
    /\ exhausted

\* C19: no automatic draining: the source is read only by a call in its
\* loop that finds the buffer empty, one chunk at a time; the step that
\* returns a row on a terminator reads nothing; and the buffer holds the
\* characters pulled and not yet consumed.
C19_NoDraining ==
    /\ [][(pulls' > pulls \/ pos' > pos) =>
            /\ pc = "loop"
            /\ buffer = <<>>
            /\ pulls' = pulls + 1
            /\ pos' - pos <= ChunkSize
            /\ buffer' = SubSeq(text, pos + 1, pos')]_vars
    /\ [][(pc = "char" /\ rows' # rows) =>
            (pulls' = pulls /\ pos' = pos /\ pc' = "idle")]_vars
    /\ [](Len(buffer) <= pos
          /\ buffer = SubSeq(text, pos - Len(buffer) + 1, pos))
\* a row was returned on a terminator with a character of the chunk still
\* in the buffer and more of the source not pulled
C19_Witness ==
    /\ pc = "idle"
    /\ outcome = "row"
    /\ ~eof
    /\ line = <<"a", LF>>
    /\ buffer # <<>>
    /\ pos < Len(text)

\* C20: character conservation: the characters consumed so far followed by
\* the buffer are the characters pulled so far; a step that pulls nothing
\* moves characters from the front of the buffer to the end of the consumed
\* ones; a call starts with an empty row, an empty field and in_quotes
\* False, and with the buffer the call before left.
C20_Conservation ==
    /\ [](consumed \o buffer = SubSeq(text, 1, pos))
    /\ [](IsSuffix(line, consumed))
    /\ [][(pos' = pos /\ reread' = reread) =>
            /\ consumed' \o buffer' = consumed \o buffer
            /\ IsPrefix(consumed, consumed')]_vars
    /\ [][(pc = "idle" /\ pc' = "loop") =>
            /\ row' = <<>>
            /\ current_field' = <<>>
            /\ ~in_quotes'
            /\ buffer' = buffer
            /\ consumed' = consumed]_vars
\* a second call consumed first the character the first call had left in
\* the buffer
C20_Witness ==
    /\ Len(rows) = 1
    /\ pulls = 0
    /\ pos = 2
    /\ consumed = <<LF, "a">>
    /\ line = <<"a">>
    /\ buffer = <<>>
====
